---- MODULE Spec2Model ----
(***************************************************************************)
(* A model of the entity layer of GAL (src/public/gal/entity.hpp and       *)
(* src/public/gal/pga.hpp): the indeterminate expressions `ie` of the      *)
(* entity types of the 3D projective geometric algebra, the converting     *)
(* constructors that read a computed entity back into a point or a line,   *)
(* and the first steps of exp and log.                                     *)
(*                                                                         *)
(* The expression engine (expression.hpp, engine.hpp) and the algebra      *)
(* (geometric_algebra.hpp) are included by these files but are not part of *)
(* them; the operators below that stand for them follow the specification  *)
(* of the engine (sections 3, 4.2-4.4 and 6 of spec.md).                   *)
(***************************************************************************)
EXTENDS Integers, Sequences, FiniteSets

(***************************************************************************)
(* Bounds of the model.                                                    *)
(***************************************************************************)
\* base ids 0..MaxId, and the same number of ids just below 2^32
MaxId == 1
\* the six slots of a line, and the slots of the other entities that are not
\* points, take values in 0..MaxVal
MaxVal == 1
\* generic entities have at most MaxElems blades
MaxElems == 1

(***************************************************************************)
(* Exact numbers.  `rat` of the engine, and the values of T in the cases   *)
(* where float arithmetic is exact, are fractions <<n, d>> in lowest terms *)
(* with d > 0.                                                             *)
(***************************************************************************)
Abs(x) == IF x < 0 THEN -x ELSE x

RECURSIVE Gcd(_, _)
Gcd(a, b) == IF b = 0 THEN a ELSE Gcd(b, a % b)

Rat(n, d) ==
    LET g == Gcd(Abs(n), Abs(d))
        s == IF d < 0 THEN -1 ELSE 1
    IN  <<(s * n) \div g, (s * d) \div g>>

RAdd(a, b) == Rat(a[1] * b[2] + b[1] * a[2], a[2] * b[2])
RMul(a, b) == Rat(a[1] * b[1], a[2] * b[2])
RNeg(a) == <<-a[1], a[2]>>
\* a / b for b # 0
RDiv(a, b) == Rat(a[1] * b[2], a[2] * b[1])

zero == <<0, 1>>
one == <<1, 1>>
minus_one == <<-1, 1>>
minus_one_half == <<-1, 2>>
two == <<2, 1>>

(***************************************************************************)
(* Values of T.  Arithmetic on T is taken exactly: a finite value is a     *)
(* fraction <<n, d>> with d > 0.  The IEEE values that the code can        *)
(* produce besides are NaN == <<0, 0>> and the infinities <<1, 0>> and     *)
(* <<-1, 0>>.  A value the model does not track (a square root that is not *)
(* rational, a sine, cosine or arc tangent away from 0) is Untracked; it   *)
(* may be any value of T, and whatever is computed from it is Untracked    *)
(* unless it is NaN whatever the value.  Zeros carry no sign: a zero       *)
(* divisor counts as +0.                                                   *)
(***************************************************************************)
NaN == <<0, 0>>
Untracked == <<0, -1>>
Inf(sign) == <<sign, 0>>

IsNum(x) == x[2] > 0
IsInf(x) == x[2] = 0 /\ x[1] # 0
Sign(x) == IF x[1] > 0 THEN 1 ELSE IF x[1] < 0 THEN -1 ELSE 0

FNeg(x) == <<-x[1], x[2]>>

FAdd(a, b) ==
    IF a = NaN \/ b = NaN THEN NaN
    ELSE IF a = Untracked \/ b = Untracked THEN Untracked
    ELSE IF IsInf(a) /\ IsInf(b) THEN (IF a = b THEN a ELSE NaN)
    ELSE IF IsInf(a) THEN a
    ELSE IF IsInf(b) THEN b
    ELSE RAdd(a, b)

FMul(a, b) ==
    IF a = NaN \/ b = NaN THEN NaN
    ELSE IF a = Untracked \/ b = Untracked THEN Untracked
    ELSE IF IsInf(a) \/ IsInf(b)
         THEN (IF Sign(a) * Sign(b) = 0 THEN NaN ELSE Inf(Sign(a) * Sign(b)))
    ELSE RMul(a, b)

FDiv(a, b) ==
    IF a = NaN \/ b = NaN THEN NaN
    ELSE IF a = Untracked \/ b = Untracked THEN Untracked
    ELSE IF IsInf(b) THEN (IF IsInf(a) THEN NaN ELSE zero)
    ELSE IF b = zero THEN (IF a = zero THEN NaN ELSE Inf(Sign(a)))
    ELSE IF IsInf(a) THEN Inf(Sign(a) * Sign(b))
    ELSE RDiv(a, b)

\* std::sqrt: exact on the squares of fractions
FSqrt(x) ==
    IF x = NaN \/ x = Untracked THEN x
    ELSE IF Sign(x) < 0 THEN NaN
    ELSE IF IsInf(x) THEN x
    ELSE IF \E r \in 0..x[1] : \E t \in 1..x[2] : r * r = x[1] /\ t * t = x[2]
         THEN <<CHOOSE r \in 0..x[1] : r * r = x[1], CHOOSE t \in 1..x[2] : t * t = x[2]>>
    ELSE Untracked

\* std::cos and std::sin: exact at 0
FCos(x) ==
    IF x = NaN \/ IsInf(x) THEN NaN
    ELSE IF x = zero THEN one
    ELSE Untracked

FSin(x) ==
    IF x = NaN \/ IsInf(x) THEN NaN
    ELSE IF x = zero THEN zero
    ELSE Untracked

\* std::atan2(y, x): exact on the positive x axis
FAtan2(y, x) ==
    IF y = NaN \/ x = NaN THEN NaN
    ELSE IF y = zero /\ x # Untracked /\ Sign(x) > 0 THEN zero
    ELSE Untracked

\* std::abs(x) < 10^-6
NearZero(x) == IsNum(x) /\ Abs(x[1]) * 1000000 < x[2]

\* uint32_t arithmetic of the ids: an id is <<high, low>>, its two 16-bit
\* halves, and id + n wraps at 2^32
HalfWord == 65536
U32Add(id, n) ==
    LET low == id[2] + n
    IN  <<(id[1] + (low \div HalfWord)) % HalfWord, low % HalfWord>>

(***************************************************************************)
(* The flat symbolic multivector mv<A, I, M, T>: the declared mv_size, the *)
(* capacities of the type, and the initialised indeterminates, monomials   *)
(* and terms.  Offsets are 0-based as in the source.                       *)
(***************************************************************************)
ind(id, degree) == [id |-> id, degree |-> degree]
mon(q, degree, count, ind_offset) ==
    [q |-> q, degree |-> degree, count |-> count, ind_offset |-> ind_offset]
term(count, mon_offset, element) ==
    [count |-> count, mon_offset |-> mon_offset, element |-> element]
mv_size(i, m, t) == [ind |-> i, mon |-> m, term |-> t]
mv(cap, size, inds, mons, terms) ==
    [cap |-> cap, size |-> size, inds |-> inds, mons |-> mons, terms |-> terms]

\* detail::construct_ie: one indeterminate, one monomial and one term per blade
construct_ie(id, E) ==
    LET count == Len(E)
    IN  mv(mv_size(count, count, count), mv_size(count, count, count),
           [n \in 1..count |-> ind(U32Add(id, n - 1), one)],
           [n \in 1..count |-> mon(one, one, 1, n - 1)],
           [n \in 1..count |-> term(1, n - 1, E[n])])

\* entity<A, T, E...>::ie
entity_ie(E, id) == construct_ie(id, E)

\* scalar::ie
scalar_ie(id) ==
    mv(mv_size(1, 1, 1), mv_size(1, 1, 1),
       <<ind(id, one)>>, <<mon(one, one, 0, 1)>>, <<term(1, 0, 0)>>)

\* rotor::ie with z taken one id too far
rotor_ie_off_by_one(id) ==
    mv(mv_size(8, 4, 4), mv_size(7, 4, 4),
       <<ind(id, one),
         ind(U32Add(id, 1), one), ind(U32Add(id, 5), one),
         ind(U32Add(id, 1), one), ind(U32Add(id, 3), one),
         ind(U32Add(id, 1), one), ind(U32Add(id, 2), one)>>,
       <<mon(one, one, 1, 0), mon(one, one, 1, 1),
         mon(minus_one, two, 2, 2), mon(one, two, 2, 3)>>,
       <<term(1, 0, 0), term(1, 1, 6), term(1, 2, 10), term(1, 3, 12)>>)

\* rotor::ie
rotor_ie(id) ==
    mv(mv_size(8, 4, 4), mv_size(7, 4, 4),
       <<ind(id, one),
         ind(U32Add(id, 1), one), ind(U32Add(id, 4), one),
         ind(U32Add(id, 1), one), ind(U32Add(id, 3), one),
         ind(U32Add(id, 1), one), ind(U32Add(id, 2), one)>>,
       <<mon(one, one, 1, 0), mon(one, one, 1, 1),
         mon(minus_one, two, 2, 2), mon(one, two, 2, 3)>>,
       <<term(1, 0, 0), term(1, 1, 6), term(1, 2, 10), term(1, 3, 12)>>)

\* translator::ie
translator_ie(id) ==
    mv(mv_size(6, 4, 4), mv_size(6, 4, 4),
       <<ind(id, one), ind(U32Add(id, 1), one),
         ind(id, one), ind(U32Add(id, 1), one),
         ind(id, one), ind(U32Add(id, 2), one)>>,
       <<mon(one, zero, 0, 0), mon(minus_one_half, two, 2, 1),
         mon(minus_one_half, two, 2, 2), mon(minus_one_half, two, 2, 3)>>,
       <<term(1, 0, 0), term(1, 1, 3), term(1, 2, 5), term(1, 3, 9)>>)

\* plane::ie
plane_ie(id) == construct_ie(id, <<1, 2, 4, 8>>)

\* point::ie
point_ie(id) ==
    mv(mv_size(3, 4, 4), mv_size(3, 4, 4),
       <<ind(U32Add(id, 2), one), ind(U32Add(id, 1), one), ind(id, one)>>,
       <<mon(minus_one, one, 1, 0), mon(one, one, 1, 1),
         mon(minus_one, one, 1, 2), mon(one, zero, 0, 0)>>,
       <<term(1, 0, 7), term(1, 1, 11), term(1, 2, 13), term(1, 3, 14)>>)

\* vector::ie (the declared mv_size{3, 4, 4} is the source's)
vector_ie(id) ==
    mv(mv_size(3, 3, 3), mv_size(3, 4, 4),
       <<ind(U32Add(id, 2), one), ind(U32Add(id, 1), one), ind(id, one)>>,
       <<mon(minus_one, one, 1, 0), mon(one, one, 1, 1),
         mon(minus_one, one, 1, 2)>>,
       <<term(1, 0, 7), term(1, 1, 11), term(1, 2, 13)>>)

\* line::ie with the e12 term on the blade 0b100
line_ie_wrong_blade(id) ==
    mv(mv_size(6, 6, 6), mv_size(6, 6, 6),
       <<ind(U32Add(id, 3), one), ind(U32Add(id, 4), one), ind(U32Add(id, 2), one),
         ind(U32Add(id, 5), one), ind(U32Add(id, 1), one), ind(id, one)>>,
       <<mon(one, one, 1, 0), mon(one, one, 1, 1), mon(one, one, 1, 2),
         mon(one, one, 1, 3), mon(one, one, 1, 4), mon(one, one, 1, 5)>>,
       <<term(1, 0, 3), term(1, 1, 5), term(1, 2, 4),
         term(1, 3, 9), term(1, 4, 10), term(1, 5, 12)>>)

\* line::ie
line_ie(id) ==
    mv(mv_size(6, 6, 6), mv_size(6, 6, 6),
       <<ind(U32Add(id, 3), one), ind(U32Add(id, 4), one), ind(U32Add(id, 2), one),
         ind(U32Add(id, 5), one), ind(U32Add(id, 1), one), ind(id, one)>>,
       <<mon(one, one, 1, 0), mon(one, one, 1, 1), mon(one, one, 1, 2),
         mon(one, one, 1, 3), mon(one, one, 1, 4), mon(one, one, 1, 5)>>,
       <<term(1, 0, 3), term(1, 1, 5), term(1, 2, 6),
         term(1, 3, 9), term(1, 4, 10), term(1, 5, 12)>>)

\* a motor with e123 in the place of the pseudoscalar
motor_elements_e123 == <<0, 3, 5, 6, 9, 10, 12, 14>>

\* motor = entity<pga_algebra, T, 0, 0b11, 0b101, 0b110, 0b1001, 0b1010, 0b1100, 0b1111>
motor_elements == <<0, 3, 5, 6, 9, 10, 12, 15>>

(***************************************************************************)
(* The entity protocol: size(), ind_count() and ie(id) of each entity      *)
(* type.  A generic entity is given by its blade list E.                   *)
(***************************************************************************)
Kinds == {"entity", "scalar", "rotor", "translator", "plane", "point", "vector", "line"}

size(k, E) ==
    CASE k = "entity" -> Len(E)
      [] k = "scalar" -> 1
      [] k = "rotor" -> 5
      [] k = "translator" -> 4
      [] k = "plane" -> 4
      [] k = "point" -> 3
      [] k = "vector" -> 3
      [] k = "line" -> 6

ind_count(k, E) ==
    CASE k = "entity" -> Len(E)
      [] k = "scalar" -> 1
      [] k = "rotor" -> 5
      [] k = "translator" -> 4
      [] k = "plane" -> 4
      [] k = "point" -> 3
      [] k = "vector" -> 3
      [] k = "line" -> 6

ie(k, E, id) ==
    CASE k = "entity" -> entity_ie(E, id)
      [] k = "scalar" -> scalar_ie(id)
      [] k = "rotor" -> rotor_ie(id)
      [] k = "translator" -> translator_ie(id)
      [] k = "plane" -> plane_ie(id)
      [] k = "point" -> point_ie(id)
      [] k = "vector" -> vector_ie(id)
      [] k = "line" -> line_ie(id)

(***************************************************************************)
(* The algebra.  metric<P, V, R> counts the basis vectors that square to   *)
(* +1, -1 and 0; the degenerate ones come first, so that in the PGA e0 is  *)
(* the ideal plane (pga.hpp names e01, e02, e03 the ideal lines).          *)
(***************************************************************************)
pga_metric == [p |-> 3, v |-> 0, r |-> 1]

dimension(metric) == metric.p + metric.v + metric.r

RECURSIVE Pow2(_)
Pow2(n) == IF n = 0 THEN 1 ELSE 2 * Pow2(n - 1)

Bit(blade, i) == (blade \div Pow2(i)) % 2

Blades == 0..(Pow2(dimension(pga_metric)) - 1)

BasisOf(blade) == {i \in 0..(dimension(pga_metric) - 1) : Bit(blade, i) = 1}

grade(blade) == Cardinality(BasisOf(blade))

\* the square of basis vector i
element_norm(metric, i) ==
    IF i < metric.r THEN 0
    ELSE IF i < metric.r + metric.p THEN 1 ELSE -1

RECURSIVE IntProduct(_, _)
IntProduct(f, S) ==
    IF S = {} THEN 1
    ELSE LET x == CHOOSE y \in S : TRUE IN f[x] * IntProduct(f, S \ {x})

\* (blade_a, blade_b) -> (sign, result_blade): the sign of sorting the basis
\* vectors of a followed by those of b, times the squares of the shared ones
blade_product(a, b) ==
    LET swaps == Cardinality({ij \in BasisOf(a) \X BasisOf(b) : ij[1] > ij[2]})
        shared == BasisOf(a) \cap BasisOf(b)
        norms == [i \in shared |-> element_norm(pga_metric, i)]
        xor == a + b - 2 * (CHOOSE c \in Blades : BasisOf(c) = shared)
    IN  [sign |-> (IF swaps % 2 = 0 THEN 1 ELSE -1) * IntProduct(norms, shared),
         element |-> xor]

(***************************************************************************)
(* The engine, as the specification describes it.  A monomial is its       *)
(* coefficient times the product of the `count` indeterminates that start  *)
(* at `ind_offset` of the indeterminate list; a term is the sum of the     *)
(* `count` monomials that start at `mon_offset`, on one blade.  Like       *)
(* monomials are those with the same indeterminates to the same degrees,   *)
(* in whatever order the factors were written: a monomial's indeterminates *)
(* are kept as a function from id to degree.                               *)
(***************************************************************************)
RECURSIVE RSum(_, _)
RSum(f, S) ==
    IF S = {} THEN zero
    ELSE LET x == CHOOSE y \in S : TRUE IN RAdd(f[x], RSum(f, S \ {x}))

\* the indeterminates of monomial mo of multivector m, id -> degree
MonBag(m, mo) ==
    LET P == (mo.ind_offset + 1)..(mo.ind_offset + mo.count)
        ids == {m.inds[p].id : p \in P}
    IN  [i \in ids |->
            RSum([p \in P |-> m.inds[p].degree], {p \in P : m.inds[p].id = i})]

\* multiplying two monomials: degrees of a shared id add
BagMul(x, y) ==
    [i \in (DOMAIN x) \cup (DOMAIN y) |->
        RAdd(IF i \in DOMAIN x THEN x[i] ELSE zero,
             IF i \in DOMAIN y THEN y[i] ELSE zero)]

\* every (term, monomial) of m as [element, bag, q]
Flat(m) ==
    LET D == {tk \in (1..m.size.term) \X (0..Len(m.mons)) :
                 tk[2] < m.terms[tk[1]].count}
    IN  [tk \in D |->
            LET t == m.terms[tk[1]]
                mo == m.mons[t.mon_offset + tk[2] + 1]
            IN  [element |-> t.element, bag |-> MonBag(m, mo), q |-> mo.q]]

\* the geometric product before canonicalization: one raw monomial per pair
RawProduct(fa, fb) ==
    [xy \in (DOMAIN fa) \X (DOMAIN fb) |->
        LET x == fa[xy[1]]
            y == fb[xy[2]]
            bp == blade_product(x.element, y.element)
        IN  [element |-> bp.element,
             bag |-> BagMul(x.bag, y.bag),
             q |-> RMul(Rat(bp.sign, 1), RMul(x.q, y.q))]]

\* the sum before canonicalization: the monomials of both
RawSum(fa, fb) ==
    [d \in ({1} \X DOMAIN fa) \cup ({2} \X DOMAIN fb) |->
        IF d[1] = 1 THEN fa[d[2]] ELSE fb[d[2]]]

GeometricProduct(a, b) == RawProduct(Flat(a), Flat(b))

\* canonicalization: group by blade, add the coefficients of like monomials,
\* drop dead monomials and the blades left with none
Canonical(raw) ==
    LET D == DOMAIN raw
        coef(e, bag) ==
            RSum([d \in D |-> raw[d].q],
                 {d \in D : raw[d].element = e /\ raw[d].bag = bag})
        poly(e) ==
            LET bags == {raw[d].bag : d \in {x \in D : raw[x].element = e}}
                all == [bag \in bags |-> coef(e, bag)]
            IN  [bag \in {x \in bags : all[x] # zero} |-> all[bag]]
        polys == [e \in {raw[d].element : d \in D} |-> poly(e)]
    IN  [e \in {x \in DOMAIN polys : DOMAIN polys[x] # {}} |-> polys[e]]

\* the output layout: blades by grade, ascending within a grade
RECURSIVE GradeOrder(_)
GradeOrder(S) ==
    IF S = {} THEN <<>>
    ELSE LET first == CHOOSE x \in S : \A y \in S :
                          \/ grade(x) < grade(y)
                          \/ grade(x) = grade(y) /\ x <= y
         IN  <<first>> \o GradeOrder(S \ {first})

RECURSIVE FSum(_, _)
FSum(f, S) ==
    IF S = {} THEN zero
    ELSE LET x == CHOOSE y \in S : TRUE IN FAdd(f[x], FSum(f, S \ {x}))

RECURSIVE FPow(_, _)
FPow(x, n) == IF n = 0 THEN one ELSE FMul(x, FPow(x, n - 1))

RECURSIVE BagValue(_, _)
BagValue(bag, val) ==
    IF DOMAIN bag = {} THEN one
    ELSE LET i == CHOOSE j \in DOMAIN bag : TRUE
         IN  FMul(FPow(val[i], bag[i][1]),
                  BagValue([j \in (DOMAIN bag) \ {i} |-> bag[j]], val))

\* the numeric plan run against the inputs: an entity with one slot per
\* surviving blade; val maps an indeterminate id to its input
Lower(c, val) ==
    LET order == GradeOrder(DOMAIN c)
    IN  [elements |-> order,
         data_ |-> [n \in 1..Len(order) |->
                      LET poly == c[order[n]]
                      IN  FSum([bag \in DOMAIN poly |->
                                   FMul(poly[bag], BagValue(bag, val))],
                               DOMAIN poly)]]

\* slot i of an entity anchored at id is the input of indeterminate id + i
Binding(id, data) ==
    [i \in {U32Add(id, n - 1) : n \in 1..Len(data)} |->
        data[CHOOSE n \in 1..Len(data) : U32Add(id, n - 1) = i]]


\* compute gives its arguments consecutive id ranges from 0: the base id of
\* argument k, where sizes are the slot counts of the arguments
RECURSIVE ArgId(_, _)
ArgId(sizes, k) ==
    IF k = 1 THEN <<0, 0>> ELSE U32Add(ArgId(sizes, k - 1), sizes[k - 1])

RECURSIVE BindArgs(_, _)
BindArgs(args, k) ==
    IF k = 0 THEN <<>>
    ELSE LET f == Binding(ArgId([n \in 1..Len(args) |-> Len(args[n])], k),
                          args[k])
             g == BindArgs(args, k - 1)
         IN  [i \in (DOMAIN f) \cup (DOMAIN g) |->
                 IF i \in DOMAIN f THEN f[i] ELSE g[i]]

\* compute(lambda, args...) at run time: the plan the expression was
\* simplified to ahead of run time is run on the slots of the arguments
compute(c, args) == Lower(c, BindArgs(args, Len(args)))

\* gal::e<pga_algebra, blade>: the unit multivector of one basis blade
e(blade) ==
    mv(mv_size(0, 1, 1), mv_size(0, 1, 1),
       <<>>, <<mon(one, zero, 0, 0)>>, <<term(1, 0, blade)>>)

\* pga_algebra::pseudoscalar, the lhs of ps<T>
pseudoscalar == e(15)

(***************************************************************************)
(* entity::select, and the constructors that take a computed entity.       *)
(***************************************************************************)
\* the loop of select(uint8_t e) const from index i on: data_[i] at the first
\* elements[i] == e, and T{} when the loop runs out
RECURSIVE select_loop(_, _, _)
select_loop(in, blade, i) ==
    IF i = Len(in.elements) THEN zero
    ELSE IF in.elements[i + 1] = blade THEN in.data_[i + 1]
    ELSE select_loop(in, blade, i + 1)

\* a T*: null, or the address of a slot of data_
nullptr == <<>>
address_of(i) == <<i>>

\* the loop of the mutable select(uint8_t e) from index i on: &data_[i] at the
\* first elements[i] == e, and null when the loop runs out
RECURSIVE select_mutable_loop(_, _, _)
select_mutable_loop(in, blade, i) ==
    IF i = Len(in.elements) THEN nullptr
    ELSE IF in.elements[i + 1] = blade THEN address_of(i)
    ELSE select_mutable_loop(in, blade, i + 1)

\* T* select(uint8_t e)
select_mutable(in, blade) == select_mutable_loop(in, blade, 0)

\* select(uint8_t e) const returning the slot of the last elements[i] == e
select_last_match(in, blade) ==
    IF \E i \in 1..Len(in.elements) : in.elements[i] = blade
    THEN in.data_[CHOOSE i \in 1..Len(in.elements) :
                     /\ in.elements[i] = blade
                     /\ \A j \in (i + 1)..Len(in.elements) :
                            in.elements[j] # blade]
    ELSE zero

\* T select(uint8_t e) const
select(in, blade) == select_loop(in, blade, 0)

\* select<S...>()
select_all(in, S) == [n \in 1..Len(S) |-> select(in, S[n])]

\* point::point(entity) with y negated like x and z
point_from_entity_negated_y(in) ==
    LET input == select_all(in, <<7, 11, 13, 14>>)
        w_inv == FDiv(one, input[4])
        z == FMul(FNeg(input[1]), w_inv)
        y == FMul(FNeg(input[2]), w_inv)
        x == FMul(FNeg(input[3]), w_inv)
    IN  <<x, y, z>>

\* point::point(entity): the slots x, y, z
point_from_entity(in) ==
    LET input == select_all(in, <<7, 11, 13, 14>>)
        w_inv == FDiv(one, input[4])
        z == FMul(FNeg(input[1]), w_inv)
        y == FMul(input[2], w_inv)
        x == FMul(FNeg(input[3]), w_inv)
    IN  <<x, y, z>>

\* line::line(entity): the slots dx, dy, dz, mx, my, mz
line_from_entity(in) == select_all(in, <<3, 5, 4, 9, 10, 12>>)

\* plane::plane(entity): the slots d, x, y, z
plane_from_entity(in) == select_all(in, <<1, 2, 4, 8>>)

\* line::line(std::array<T, 6>)
line_from_array(in) == in

(***************************************************************************)
(* exp and log.  Each is given with its locals; ret is what it returns.    *)
(* The lambdas that exp, log and the composition of a motor hand to        *)
(* compute are simplified ahead of run time; plans holds what they were    *)
(* simplified to.                                                          *)
(***************************************************************************)
VARIABLE plans

\* [](auto l) { return l * l; } of exp and log, simplified
line_squared_plan ==
    Canonical(GeometricProduct(line_ie(<<0, 0>>), line_ie(<<0, 0>>)))

\* compute([](auto l) { return l * l; }, l)
line_squared(l) == compute(plans.square, <<l>>)

\* the blades of the entity l2 of exp and log
l2_elements == GradeOrder(DOMAIN line_squared_plan)

\* the lambda of log, (u + v * ps<T>) * norm_inv * l of the arguments
\* norm_inv, l, u, v, simplified
log_plan ==
    LET sizes == <<Len(l2_elements), 6, 1, 1>>
        sym_norm_inv == Flat(entity_ie(l2_elements, ArgId(sizes, 1)))
        sym_l == Flat(line_ie(ArgId(sizes, 2)))
        sym_u == Flat(scalar_ie(ArgId(sizes, 3)))
        sym_v == Flat(scalar_ie(ArgId(sizes, 4)))
    IN  Canonical(
            RawProduct(
                RawProduct(
                    RawSum(sym_u, RawProduct(sym_v, Flat(pseudoscalar))),
                    sym_norm_inv),
                sym_l))

\* the lambda of exp, real + ideal * inv_norm * l of the arguments
\* real, ideal, inv_norm, l, simplified
exp_plan ==
    LET n == Len(l2_elements)
        sizes == <<n, n, n, 6>>
        sym_real == Flat(entity_ie(l2_elements, ArgId(sizes, 1)))
        sym_ideal == Flat(entity_ie(l2_elements, ArgId(sizes, 2)))
        sym_inv_norm == Flat(entity_ie(l2_elements, ArgId(sizes, 3)))
        sym_l == Flat(line_ie(ArgId(sizes, 4)))
    IN  Canonical(
            RawSum(sym_real,
                   RawProduct(RawProduct(sym_ideal, sym_inv_norm), sym_l)))

\* [](auto r, auto t) { return r * t; } of a rotor and a translator,
\* simplified
compose_plan ==
    LET sizes == <<5, 4>>
    IN  Canonical(GeometricProduct(rotor_ie(ArgId(sizes, 1)),
                                   translator_ie(ArgId(sizes, 2))))

\* log(motor<T> const& m)
log(m) ==
    LET s1 == m.data_[1]
        p1 == m.data_[8]
        l == line_from_array(select_all(m, <<3, 5, 6, 9, 10, 12>>))
        l2 == line_squared(l)
        s2 == FSqrt(FNeg(l2.data_[1]))
        p2 == FDiv(FNeg(l2.data_[2]), FMul(two, s2))
        s1_zero == NearZero(s1)
        u == IF s1 = Untracked THEN Untracked
             ELSE IF s1_zero THEN FAtan2(FNeg(p1), p2) ELSE FAtan2(s2, s1)
        v == IF s1 = Untracked THEN Untracked
             ELSE IF s1_zero THEN FDiv(FNeg(p1), s2) ELSE FDiv(p2, s1)
        norm_inv == <<FNeg(s2), FDiv(p2, FMul(two, s2))>>
        computed == compute(plans.log, <<norm_inv, l, <<u>>, <<v>>>>)
    IN  [s1 |-> s1, p1 |-> p1, l |-> l, l2 |-> l2, s2 |-> s2, p2 |-> p2,
         s1_zero |-> s1_zero, u |-> u, v |-> v, norm_inv |-> norm_inv,
         computed |-> computed, ret |-> line_from_entity(computed)]

\* exp(line<T> const& l)
exp(l) ==
    LET l2 == line_squared(l)
        s == FNeg(l2.data_[1])
        u == FSqrt(s)
        v == FDiv(FNeg(l2.data_[2]), FMul(two, u))
        \* l2[0] = u; l2[1] = v; inv_norm reads the l2[1] just assigned
        inv_norm == <<FDiv(one, u), FDiv(FNeg(v), s)>>
        cos_u == FCos(u)
        sin_u == FSin(u)
        real == <<cos_u, FMul(FNeg(v), sin_u)>>
        ideal == <<sin_u, FMul(v, cos_u)>>
    IN  [l2 |-> l2, s |-> s, u |-> u, v |-> v, inv_norm |-> inv_norm,
         real |-> real, ideal |-> ideal,
         ret |-> compute(plans.exp, <<real, ideal, inv_norm, l>>)]

(***************************************************************************)
(* Inputs.                                                                 *)
(***************************************************************************)
BaseIds ==
    {<<0, n>> : n \in 0..MaxId}
        \cup {<<HalfWord - 1, HalfWord - 1 - n>> : n \in 0..MaxId}

\* coordinates of points: those of (1,2,3), (0,0,0) and (-1.5,2.5,100)
PointVals == {Rat(-3, 2), zero, one, two, Rat(5, 2), Rat(3, 1), Rat(100, 1)}

SlotVals == {Rat(n, 1) : n \in 0..MaxVal}

\* slots of generic entities
EntityVals == {zero, one}

\* the blade lists of generic entities
EntityLists == UNION {[1..n -> Blades] : n \in 0..MaxElems}

\* the blades of the entities that select is tried on, and the blade lists,
\* repeats included, of those entities and of select<S...>
SelectBlades == {0, 6, 14}
SelectLists == UNION {[1..n -> SelectBlades] : n \in 0..(MaxElems + 1)}

(***************************************************************************)
(* The state: an entity type (its kind, blade list and base id) with its   *)
(* indeterminate expression; the expression a compute call was given       *)
(* (lambda) and the canonical multivector the engine simplified it to      *)
(* ahead of run time (plan); the slots of the entity the plan is run on    *)
(* (data), the entity that comes out (result), and what a converting       *)
(* constructor reads back from it (out); a motor, the locals and the       *)
(* result of log on it (logv), and those of exp on that result (expv).     *)
(* A select call is made on the entity result, with its blades in ops and  *)
(* what it returns in out.                                                 *)
(***************************************************************************)
VARIABLES pc, kind, elements, id, expr, lambda, ops, plan, data, result, out,
          motor, logv, expv

vars == <<plans, pc, kind, elements, id, expr, lambda, ops, plan, data,
          result, out, motor, logv, expv>>

NoMv == mv(mv_size(0, 0, 0), mv_size(0, 0, 0), <<>>, <<>>, <<>>)
NoEntity == [elements |-> <<>>, data_ |-> <<>>]

Init ==
    /\ plans = [square |-> line_squared_plan, log |-> log_plan,
                exp |-> exp_plan, compose |-> compose_plan]
    /\ pc = "idle"
    /\ kind = "none"
    /\ elements = <<>>
    /\ id = <<0, 0>>
    /\ expr = NoMv
    /\ lambda = "none"
    /\ ops = <<>>
    /\ plan = <<>>
    /\ data = <<>>
    /\ result = NoEntity
    /\ out = <<>>
    /\ motor = NoEntity
    /\ logv = <<>>
    /\ expv = <<>>

\* T::ie(id) is a static function of the entity type: it needs no instance
Built(k, E, b) ==
    /\ pc' = "built"
    /\ kind' = k
    /\ elements' = E
    /\ id' = b
    /\ expr' = ie(k, E, b)
    /\ UNCHANGED <<plans, lambda, ops, plan, data, result, out, motor, logv,
                   expv>>

IeEntity ==
    /\ pc = "idle"
    /\ \E b \in BaseIds : \E E \in EntityLists : Built("entity", E, b)

IeMotor ==
    /\ pc = "idle"
    /\ \E b \in BaseIds : Built("entity", motor_elements, b)

IeScalar ==
    /\ pc = "idle"
    /\ \E b \in BaseIds : Built("scalar", <<>>, b)

IeRotor ==
    /\ pc = "idle"
    /\ \E b \in BaseIds : Built("rotor", <<>>, b)

IeTranslator ==
    /\ pc = "idle"
    /\ \E b \in BaseIds : Built("translator", <<>>, b)

IePlane ==
    /\ pc = "idle"
    /\ \E b \in BaseIds : Built("plane", <<>>, b)

IePoint ==
    /\ pc = "idle"
    /\ \E b \in BaseIds : Built("point", <<>>, b)

IeVector ==
    /\ pc = "idle"
    /\ \E b \in BaseIds : Built("vector", <<>>, b)

IeLine ==
    /\ pc = "idle"
    /\ \E b \in BaseIds : Built("line", <<>>, b)

\* compute([](auto x) { return x; }, entity), ahead of run time: the
\* expression is simplified to its canonical multivector.  The declared term
\* count of vector::ie is past the end of its term array, so a vector is not
\* simplified.
SimplifyIdentity ==
    /\ pc = "built"
    /\ kind # "vector"
    /\ pc' = "planned"
    /\ lambda' = "identity"
    /\ plan' = Canonical(Flat(expr))
    /\ UNCHANGED <<plans, kind, elements, id, expr, ops, data, result, out,
                   motor, logv, expv>>

\* compute([](auto l) { return l * l; }, l) of exp and log, ahead of run time
SimplifySquare ==
    /\ pc = "built"
    /\ kind = "line"
    /\ pc' = "planned"
    /\ lambda' = "square"
    /\ plan' = Canonical(GeometricProduct(expr, expr))
    /\ UNCHANGED <<plans, kind, elements, id, expr, ops, data, result, out,
                   motor, logv, expv>>

\* the geometric product of two basis blades of pga.hpp
BasisProduct ==
    /\ pc = "idle"
    /\ \E a \in Blades, b \in Blades :
        /\ ops' = <<a, b>>
        /\ plan' = Canonical(GeometricProduct(e(a), e(b)))
    /\ pc' = "product"
    /\ lambda' = "product"
    /\ UNCHANGED <<plans, kind, elements, id, expr, data, result, out, motor,
                   logv, expv>>

\* compute at run time: the plan is run on the slots d of the entity
Run(d) ==
    /\ pc = "planned"
    /\ pc' = "evaluated"
    /\ data' = d
    /\ result' = Lower(plan, Binding(id, d))
    /\ UNCHANGED <<plans, kind, elements, id, expr, lambda, ops, plan, out,
                   motor, logv, expv>>

\* point(x, y, z)
RunPoint ==
    /\ kind = "point"
    /\ \E x \in PointVals, y \in PointVals, z \in PointVals : Run(<<x, y, z>>)

\* line(dx, dy, dz, mx, my, mz)
RunLine ==
    /\ kind = "line"
    /\ \E d \in [1..6 -> SlotVals] : Run(d)

\* plane(d, x, y, z), translator(d, x, y, z), scalar{value}
RunPlain ==
    /\ kind \in {"plane", "translator", "scalar"}
    /\ \E d \in [1..size(kind, elements) -> SlotVals] : Run(d)

\* rotor(theta, x, y, z) at theta = 0, where cos(theta/2) = 1 and
\* sin(theta/2) = 0 are exact
RunRotor ==
    /\ kind = "rotor"
    /\ \E d \in [1..3 -> SlotVals] : Run(<<one, zero>> \o d)

\* a generic entity, as the engine returned it
RunEntity ==
    /\ kind = "entity"
    /\ \E d \in [1..Len(elements) -> EntityVals] : Run(d)

\* the entity constructor of the entity's own type, on the computed entity
ConvertBack ==
    /\ pc = "evaluated"
    /\ lambda = "identity"
    /\ kind \in {"point", "line", "plane"}
    /\ pc' = "converted"
    /\ out' = CASE kind = "point" -> point_from_entity(result)
                [] kind = "line" -> line_from_entity(result)
                [] kind = "plane" -> plane_from_entity(result)
    /\ UNCHANGED <<plans, kind, elements, id, expr, lambda, ops, plan, data,
                   result, motor, logv, expv>>

\* a motor: compute([](auto r, auto t) { return r * t; }, rotor, translator)
\* of rotor(0, x, y, z) and translator(d, x, y, z)
Compose ==
    /\ pc = "idle"
    /\ \E d \in SlotVals : \E a \in [1..3 -> SlotVals] :
        LET args == <<<<one, zero>> \o a, <<d>> \o a>>
        IN  /\ data' = args[1] \o args[2]
            /\ motor' = compute(plans.compose, args)
    /\ pc' = "motor"
    /\ lambda' = "compose"
    /\ plan' = plans.compose
    /\ UNCHANGED <<plans, kind, elements, id, expr, ops, result, out, logv,
                   expv>>

\* a motor with given slots
MakeMotor ==
    /\ pc = "idle"
    /\ \E d \in [1..Len(motor_elements) -> EntityVals] :
        motor' = [elements |-> motor_elements, data_ |-> d]
    /\ pc' = "motor"
    /\ UNCHANGED <<plans, kind, elements, id, expr, lambda, ops, plan, data,
                   result, out,
                   logv, expv>>

Log ==
    /\ pc = "motor"
    /\ pc' = "logged"
    /\ logv' = log(motor)
    /\ UNCHANGED <<plans, kind, elements, id, expr, lambda, ops, plan, data,
                   result, out,
                   motor, expv>>

Exp ==
    /\ pc = "logged"
    /\ pc' = "exped"
    /\ expv' = exp(logv.ret)
    /\ UNCHANGED <<plans, kind, elements, id, expr, lambda, ops, plan, data,
                   result, out,
                   motor, logv>>

\* an entity<A, T, E...> with given slots
MakeEntity ==
    /\ pc = "idle"
    /\ \E E \in SelectLists : \E d \in [1..Len(E) -> EntityVals] :
        /\ elements' = E
        /\ data' = d
        /\ result' = [elements |-> E, data_ |-> d]
    /\ pc' = "entity"
    /\ kind' = "entity"
    /\ UNCHANGED <<plans, id, expr, lambda, ops, plan, out, motor, logv, expv>>

\* select(e) const on the entity
SelectConst ==
    /\ pc = "entity"
    /\ \E b \in Blades :
        /\ ops' = <<b>>
        /\ out' = <<select(result, b)>>
    /\ pc' = "selected"
    /\ UNCHANGED <<plans, kind, elements, id, expr, lambda, plan, data, result,
                   motor, logv, expv>>

\* the mutable select(e) on the entity
SelectMutable ==
    /\ pc = "entity"
    /\ \E b \in Blades :
        /\ ops' = <<b>>
        /\ out' = <<select_mutable(result, b)>>
    /\ pc' = "selected_mutable"
    /\ UNCHANGED <<plans, kind, elements, id, expr, lambda, plan, data, result,
                   motor, logv, expv>>

\* select<S...>() on the entity
SelectAll ==
    /\ pc = "entity"
    /\ \E S \in SelectLists :
        /\ ops' = S
        /\ out' = select_all(result, S)
    /\ pc' = "selected_all"
    /\ UNCHANGED <<plans, kind, elements, id, expr, lambda, plan, data, result,
                   motor, logv, expv>>

Next ==
    \/ IeEntity
    \/ IeMotor
    \/ IeScalar
    \/ IeRotor
    \/ IeTranslator
    \/ IePlane
    \/ IePoint
    \/ IeVector
    \/ IeLine
    \/ SimplifyIdentity
    \/ SimplifySquare
    \/ BasisProduct
    \/ RunPoint
    \/ RunLine
    \/ RunPlain
    \/ RunRotor
    \/ RunEntity
    \/ ConvertBack
    \/ Compose
    \/ MakeMotor
    \/ Log
    \/ Exp
    \/ MakeEntity
    \/ SelectConst
    \/ SelectMutable
    \/ SelectAll

Spec == Init /\ [][Next]_vars

(***************************************************************************)
(* Properties.                                                             *)
(***************************************************************************)
IdsOf(m) == {m.inds[n].id : n \in 1..Len(m.inds)}

\* the canonical multivector with every coefficient negated
Negated(c) == [b \in DOMAIN c |-> [bag \in DOMAIN c[b] |-> RNeg(c[b][bag])]]

\* the product of the indeterminates S, each to the first degree
Indeterminates(S) == [i \in S |-> one]

\* C1: a point that is evaluated through point::ie and read back by point's
\* entity constructor has the coordinates it started with.
PointRoundTrip ==
    (pc = "converted" /\ kind = "point") => out = data

\* the round trip of (-1.5, 2.5, 100) anchored just below 2^32
PointRoundTripWitness ==
    /\ pc = "converted"
    /\ kind = "point"
    /\ id = <<HalfWord - 1, HalfWord - 1>>
    /\ data = <<Rat(-3, 2), Rat(5, 2), Rat(100, 1)>>
    /\ result.elements = <<7, 11, 13, 14>>
    /\ result.data_ = <<Rat(-100, 1), Rat(5, 2), Rat(3, 2), one>>
    /\ out = data

\* C2: in the PGA the basis vectors e0, e1, e2, e3 each square to 1, and two
\* different basis vectors anticommute.
ProductTableConsistency ==
    pc = "product" =>
        /\ (ops[1] = ops[2] /\ ops[1] \in {1, 2, 4, 8})
               => plan = Canonical(Flat(e(0)))
        /\ (ops[1] # ops[2] /\ ops[1] \in {1, 2, 4, 8} /\ ops[2] \in {1, 2, 4, 8})
               => plan = Negated(Canonical(GeometricProduct(e(ops[2]), e(ops[1]))))

\* C3: every indeterminate of ie(id) has one of the ids id, id + 1, ...,
\* id + ind_count() - 1 (in the uint32_t arithmetic of the ids), and no entity
\* anchored at id + ind_count() has an indeterminate in common with it.
ContiguousIdRange ==
    pc = "built" =>
        /\ \A i \in IdsOf(expr) :
               \E n \in 0..(ind_count(kind, elements) - 1) : i = U32Add(id, n)
        /\ \A k \in Kinds : \A E \in (IF k = "entity" THEN EntityLists ELSE {<<>>}) :
               IdsOf(expr) \cap
                   IdsOf(ie(k, E, U32Add(id, ind_count(kind, elements)))) = {}

\* a rotor anchored two below 2^32, whose ids wrap to 0, 1, 2
ContiguousIdRangeWitness ==
    /\ pc = "built"
    /\ kind = "rotor"
    /\ id = <<HalfWord - 1, HalfWord - 2>>
    /\ IdsOf(expr) = {<<HalfWord - 1, HalfWord - 2>>, <<HalfWord - 1, HalfWord - 1>>,
                      <<0, 0>>, <<0, 1>>, <<0, 2>>}
    /\ IdsOf(line_ie(U32Add(id, 5))) = {<<0, n>> : n \in 3..8}

\* C4: translator::ie(id) is 1 - 1/2 d x e01 - 1/2 d y e02 - 1/2 d z e03,
\* with d, x, y, z the indeterminates id, id + 1, id + 2, id + 3.
TranslatorExpression ==
    (pc = "built" /\ kind = "translator") =>
        LET d == id
            x == U32Add(id, 1)
            y == U32Add(id, 2)
            z == U32Add(id, 3)
        IN  /\ DOMAIN Canonical(Flat(expr)) = {0, 3, 5, 9}
            /\ Canonical(Flat(expr)) =
                   [b \in {0, 3, 5, 9} |->
                       CASE b = 0 -> [bag \in {Indeterminates({})} |-> one]
                         [] b = 3 -> [bag \in {Indeterminates({d, x})} |-> minus_one_half]
                         [] b = 5 -> [bag \in {Indeterminates({d, y})} |-> minus_one_half]
                         [] b = 9 -> [bag \in {Indeterminates({d, z})} |-> minus_one_half]]

\* C5: rotor::ie(id) is cos_theta + z sin_theta e12 - y sin_theta e13
\* + x sin_theta e23, with cos_theta, sin_theta, x, y, z the indeterminates
\* id, ..., id + 4.
RotorExpression ==
    (pc = "built" /\ kind = "rotor") =>
        LET cos_theta == id
            sin_theta == U32Add(id, 1)
            x == U32Add(id, 2)
            y == U32Add(id, 3)
            z == U32Add(id, 4)
        IN  /\ DOMAIN Canonical(Flat(expr)) = {0, 6, 10, 12}
            /\ Canonical(Flat(expr)) =
                   [b \in {0, 6, 10, 12} |->
                       CASE b = 0 -> [bag \in {Indeterminates({cos_theta})} |-> one]
                         [] b = 6 -> [bag \in {Indeterminates({z, sin_theta})} |-> one]
                         [] b = 10 -> [bag \in {Indeterminates({y, sin_theta})} |-> minus_one]
                         [] b = 12 -> [bag \in {Indeterminates({x, sin_theta})} |-> one]]

\* C6: scalar::ie(id) is one term on the scalar blade whose one monomial is
\* the indeterminate id with coefficient 1, the same multivector as the ie(id)
\* of the generic entity with blade list <0>.
ScalarExpression ==
    (pc = "built" /\ kind = "scalar") =>
        /\ Len(expr.terms) = 1
        /\ expr.terms[1].element = 0
        /\ expr.terms[1].count = 1
        /\ expr.mons[expr.terms[1].mon_offset + 1].q = one
        /\ expr.mons[expr.terms[1].mon_offset + 1].count = 1
        /\ Canonical(Flat(expr)) =
               [b \in {0} |-> [bag \in {Indeterminates({id})} |-> one]]
        /\ expr = entity_ie(<<0>>, id)

\* the blades of even grade
EvenBlades == {b \in Blades : grade(b) % 2 = 0}

\* C7: the blade list of a motor is the even-grade blades (grades 0, 2 and
\* 4), each once, in ascending mask order; slot 0 is the scalar and slot 7 the
\* pseudoscalar 0b1111, so that the m[0] and m[7] that log reads are the
\* grade-0 and the grade-4 part of the motor.
MotorEvenSubalgebra ==
    /\ Len(motor_elements) = Cardinality(EvenBlades)
    /\ {motor_elements[n] : n \in 1..Len(motor_elements)} = EvenBlades
    /\ \A n \in 1..(Len(motor_elements) - 1) :
           motor_elements[n] < motor_elements[n + 1]
    /\ motor_elements[1] = 0
    /\ motor_elements[8] = 15
    /\ pc = "logged" =>
           /\ motor.elements = motor_elements
           /\ logv.s1 = select(motor, 0)
           /\ logv.p1 = select(motor, 15)

\* log has read a motor whose scalar and pseudoscalar parts differ
MotorEvenSubalgebraWitness ==
    /\ pc = "logged"
    /\ select(motor, 0) = zero
    /\ select(motor, 15) = one
    /\ logv.s1 = zero
    /\ logv.p1 = one

\* a and b agree as values of T: NaN agrees with nothing, and a value that
\* is not tracked cannot be told apart from any other
Agree(a, b) ==
    \/ a = Untracked /\ b # NaN
    \/ b = Untracked /\ a # NaN
    \/ a = b /\ a # NaN /\ a # Untracked

\* C8: exp(log(m)) is m, slot by slot, for the motor m composed of
\* rotor(theta, x, y, z) and translator(d, x, y, z); here theta = 0.
ExpLogRoundTrip ==
    (pc = "exped" /\ lambda = "compose") =>
        \A b \in EvenBlades : Agree(select(expv.ret, b), select(motor, b))

\* the bivector blades e01, e02, e12, e03, e13, e23
BivectorBlades == {b \in Blades : grade(b) = 2}

\* the multivector a line with slots l stands for: line::ie on those slots
line_multivector(l) == compute(Canonical(Flat(line_ie(<<0, 0>>))), <<l>>)

\* C11: the line that log builds from the select of the motor m stands for
\* the grade-2 part of m: on each bivector blade, line::ie evaluated on the
\* slots of that line has the coefficient that m has.
LogBivectorExtraction ==
    pc = "logged" =>
        \A b \in BivectorBlades :
            select(line_multivector(logv.l), b) = select(motor, b)

\* the counts of m are within the capacities of its type and are the numbers
\* of entries initialised, the ranges of the monomials and of the terms are
\* within the counts, and the terms are on distinct blades
WellFormed(m) ==
    /\ m.size.ind <= m.cap.ind
    /\ m.size.mon <= m.cap.mon
    /\ m.size.term <= m.cap.term
    /\ m.size.ind = Len(m.inds)
    /\ m.size.mon = Len(m.mons)
    /\ m.size.term = Len(m.terms)
    /\ \A n \in 1..Len(m.mons) :
           m.mons[n].ind_offset + m.mons[n].count <= m.size.ind
    /\ \A n \in 1..Len(m.terms) :
           m.terms[n].mon_offset + m.terms[n].count <= m.size.mon
    /\ \A i, j \in 1..Len(m.terms) :
           i # j => m.terms[i].element # m.terms[j].element

\* C12: the multivector that ie(id) of an entity type returns is well formed:
\* its declared counts fit the capacities and are the numbers of entries
\* initialised, every monomial and term range is inside the declared counts,
\* and no two terms carry the same blade.
WellFormedIe ==
    pc = "built" => WellFormed(expr)

\* the 0-based indices of the slots of entity in on blade b
SlotsOf(in, b) == {i \in 0..(Len(in.elements) - 1) : in.elements[i + 1] = b}

\* the first of a non-empty set of indices
First(I) == CHOOSE i \in I : \A j \in I : i <= j

\* what the claim says select(b) const returns on entity in
SelectedValue(in, b) ==
    IF SlotsOf(in, b) = {} THEN zero ELSE in.data_[First(SlotsOf(in, b)) + 1]

\* C13: on an entity with blade list E, select(e) const returns data_[i] of
\* the first i with E[i] == e and zero when e is not in E; the mutable
\* select(e) returns the address of that slot, or null; select<S...>() returns
\* the results for the blades of S in the order of S; data_ is as it was.
SelectContract ==
    /\ pc = "selected" =>
           out = <<SelectedValue(result, ops[1])>>
    /\ pc = "selected_mutable" =>
           out = <<IF SlotsOf(result, ops[1]) = {} THEN nullptr
                   ELSE address_of(First(SlotsOf(result, ops[1])))>>
    /\ pc = "selected_all" =>
           /\ Len(out) = Len(ops)
           /\ \A n \in 1..Len(ops) : out[n] = SelectedValue(result, ops[n])
    /\ pc \in {"selected", "selected_mutable", "selected_all"} =>
           /\ result.data_ = data
           /\ result.elements = elements

\* select(e) const on an entity that lists e twice, with different slots
SelectContractWitness ==
    /\ pc = "selected"
    /\ result = [elements |-> <<6, 6>>, data_ |-> <<one, zero>>]
    /\ ops = <<6>>
    /\ out = <<one>>

\* C9: the canonicalized l * l of a symbolic line has two output slots, the
\* scalar blade and then the pseudoscalar blade.
LineSelfProduct ==
    /\ (pc = "planned" /\ lambda = "square") => GradeOrder(DOMAIN plan) = <<0, 15>>
    /\ (pc = "evaluated" /\ lambda = "square") =>
           /\ result.elements = <<0, 15>>
           /\ Len(result.data_) = 2

\* l * l is simplified, and before like monomials were merged it had
\* monomials on blades of grade 2
LineSelfProductWitness ==
    /\ pc = "planned"
    /\ lambda = "square"
    /\ kind = "line"
    /\ DOMAIN plan = {0, 15}
    /\ LET raw == GeometricProduct(expr, expr)
       IN  \E d \in DOMAIN raw : grade(raw[d].element) = 2 /\ raw[d].q # zero

\* C10: a line that is evaluated through line::ie and read back by line's
\* entity constructor has the six slots it started with, in the same order.
LineSlotBladeAgreement ==
    (pc = "converted" /\ kind = "line") => out = data
====
